---- MODULE Spec2Model ----
(***************************************************************************)
(* RialoFlow simulation engine (src/simulation.js): the global `state`     *)
(* object, the browser's timer table it arms (setInterval / setTimeout),   *)
(* the four step transitions and the control handlers.                     *)
(*                                                                         *)
(* Amounts are dollars.  The code computes them in IEEE doubles; for the   *)
(* parameter values drawn below (ShockInputs, ReserveInputs, YieldInputs   *)
(* and the PRESETS) every product and quotient the code forms is an exact  *)
(* integer in double arithmetic, so integer arithmetic reproduces the      *)
(* code's values.  NaN and undefined are kept as two distinguished values  *)
(* outside the range of any amount.                                        *)
(***************************************************************************)
EXTENDS Integers, Sequences, FiniteSets, TLC

VARIABLES
    currentStep,    \* state.currentStep
    isPlaying,      \* state.isPlaying
    hasEverPlayed,  \* state.hasEverPlayed
    timerId,        \* state.timerId: 0 is null, otherwise an interval id
    params,         \* state.params
    portfolio,      \* state.portfolio
    history,        \* state.history (history[i+1] is the JS history[i])
    logs,           \* state.logs
    intervals,      \* browser: ids of the live setInterval timers
    pendingStarts,  \* browser: pending setTimeout(startPlaySequence, 100)
    lastOp,         \* observer: the last handler that ran, and the step it ran at
    lastCmd         \* observer: the last play/pause/reset/preset command

vars == <<currentStep, isPlaying, hasEverPlayed, timerId, params, portfolio,
          history, logs, intervals, pendingStarts, lastOp, lastCmd>>

-----------------------------------------------------------------------------
(* Bounds of the model *)

\* live setInterval timers the browser table may hold
MaxTimers == 2
\* pending deferred starts (setTimeout of playSimulation)
MaxPending == 1

-----------------------------------------------------------------------------
\* F applied to the value of v: v is evaluated once, as a `const` is
Eval(v, F(_)) == CHOOSE r \in {F(x) : x \in {v}} : TRUE

-----------------------------------------------------------------------------
(* JavaScript numbers *)

NaN == 0 - 10^9
Undefined == NaN - 1

IsNum(x) == x > NaN

\* a + b
JsAdd(a, b) == IF IsNum(a) /\ IsNum(b) THEN a + b ELSE NaN
\* a - b
JsSub(a, b) == IF IsNum(a) /\ IsNum(b) THEN a - b ELSE NaN
\* a * (k / 100), exact on the inputs of the model
JsPercent(a, k) == IF IsNum(a) /\ IsNum(k) THEN (a * k) \div 100 ELSE NaN
\* a * 0.5
JsHalf(a) == IF IsNum(a) THEN a \div 2 ELSE NaN
\* a < b and a >= b: both are false when either side is NaN or undefined
JsLess(a, b) == IsNum(a) /\ IsNum(b) /\ a < b
JsGeq(a, b) == IsNum(a) /\ IsNum(b) /\ a >= b
\* (x / unit).toFixed(0), x >= 0: nearest integer, ties upward
ToFixed0(x, unit) == IF IsNum(x) THEN (2 * x + unit) \div (2 * unit) ELSE NaN

-----------------------------------------------------------------------------
(* Static data *)

SIMULATION_STEPS_length == 4

PRESETS ==
    [conservative |-> [shockMagnitude |-> 10, targetReserveRatio |-> 130,
                       yieldDistribution |-> 2, label |-> "Conservative"],
     balanced     |-> [shockMagnitude |-> 20, targetReserveRatio |-> 110,
                       yieldDistribution |-> 5, label |-> "Balanced"],
     aggressive   |-> [shockMagnitude |-> 35, targetReserveRatio |-> 105,
                       yieldDistribution |-> 8, label |-> "Aggressive"]]

\* Names PRESETS inherits from Object.prototype: PRESETS[name] is a truthy
\* object or function for them, none of whose preset fields is defined.
InheritedNames == {"constructor", "toString"}

\* PRESETS[presetName] is truthy
PresetTruthy(name) == name \in DOMAIN PRESETS \/ name \in InheritedNames

\* PRESETS[presetName], read field by field
PresetLookup(name) ==
    IF name \in DOMAIN PRESETS THEN PRESETS[name]
    ELSE [shockMagnitude |-> Undefined, targetReserveRatio |-> Undefined,
          yieldDistribution |-> Undefined, label |-> "undefined"]

initialPortfolio == [usdc |-> 400000, tBills |-> 300000, bonds |-> 200000, cash |-> 100000]

\* the `state` literal, with the browser's empty timer table
InitialState ==
    [currentStep |-> 0, isPlaying |-> FALSE, hasEverPlayed |-> FALSE, timerId |-> 0,
     params |-> [shockMagnitude |-> 20, targetReserveRatio |-> 110, yieldDistribution |-> 5],
     portfolio |-> [usdc |-> 0, tBills |-> 0, bonds |-> 0, cash |-> 0],
     history |-> <<>>, logs |-> <<>>,
     intervals |-> {}, pendingStarts |-> 0]

-----------------------------------------------------------------------------
(* Calculation helpers and logging *)

getTotalValue(p) == JsAdd(JsAdd(JsAdd(p.usdc, p.tBills), p.bonds), p.cash)

\* The risk score, a fraction num / den with den > 0; NaN is num = NaN
Risk(num, den) == [num |-> num, den |-> den]
RiskNaN == Risk(NaN, 1)

\* a <= b on risk scores: false when either is NaN; the scores of one
\* portfolio share their denominator unless one of them is 0 or 100
RiskLeq(a, b) ==
    /\ IsNum(a.num)
    /\ IsNum(b.num)
    /\ IF a.den = b.den THEN a.num <= b.num ELSE a.num * b.den <= b.num * a.den

\* Math.min(100, Math.max(0, finalRisk))
Clamp(r) ==
    IF ~IsNum(r.num) THEN RiskNaN
    ELSE IF r.num < 0 THEN Risk(0, 1)
    ELSE IF r.num > 100 * r.den THEN Risk(100, 1)
    ELSE r

\* compositionRisk * shockFactor
\*   = (80 bonds + 10 tBills + 5 usdc) / total * (100 + shockMagnitude) / 100,
\* reduced by 5 and with the sign carried by the numerator
FinalRisk(p, total, shockMagnitude) ==
    IF ~IsNum(total) \/ ~IsNum(shockMagnitude) THEN RiskNaN
    ELSE LET sign == IF total < 0 THEN 0 - 1 ELSE 1
         IN  Risk(sign * (16 * p.bonds + 2 * p.tBills + p.usdc) * (100 + shockMagnitude),
                  sign * 20 * total)

\* calculateRiskScore without the guard on a total of 0: 0 / 0
calculateRiskScore_NoZeroGuard(p, ps) ==
    LET total == getTotalValue(p)
    IN  IF total = 0 THEN RiskNaN
        ELSE Clamp(FinalRisk(p, total, ps.shockMagnitude))

\* calculateRiskScore with shockFactor = 1 - shockMagnitude / 100
calculateRiskScore_ShockRelief(p, ps) ==
    LET total == getTotalValue(p)
    IN  IF total = 0 THEN Risk(0, 1)
        ELSE Clamp(FinalRisk(p, total, JsSub(0, ps.shockMagnitude)))

calculateRiskScore(p, ps) ==
    LET total == getTotalValue(p)
    IN  IF total = 0 THEN Risk(0, 1)
        ELSE Clamp(FinalRisk(p, total, ps.shockMagnitude))

LogLine(line, arg, a, b) == [line |-> line, arg |-> arg, a |-> a, b |-> b]

logEvent(m, msg) == [m EXCEPT !.logs = Append(m.logs, msg)]

-----------------------------------------------------------------------------
(* Step definitions: SIMULATION_STEPS[k].apply, each returning the new      *)
(* portfolio and the machine with the step's log line appended             *)

\* SHOCK that takes twice the percentage off the bonds
ApplyShock_Double(m) ==
    LET p == m.portfolio
        s == m.params.shockMagnitude
        newBonds == JsPercent(p.bonds, JsSub(100, JsAdd(s, s)))
    IN  [logEvent(m, LogLine("[T+1] Market shock: Bonds dropped by a% (-$bk)", "",
                             s, ToFixed0(JsSub(p.bonds, newBonds), 1000)))
            EXCEPT !.portfolio = [p EXCEPT !.bonds = newBonds]]

\* SHOCK that marks down the T-Bills along with the bonds
ApplyShock_AllAssets(m) ==
    LET p == m.portfolio
        s == m.params.shockMagnitude
        newBonds == JsPercent(p.bonds, JsSub(100, s))
    IN  [logEvent(m, LogLine("[T+1] Market shock: Bonds dropped by a% (-$bk)", "",
                             s, ToFixed0(JsSub(p.bonds, newBonds), 1000)))
            EXCEPT !.portfolio = [p EXCEPT !.bonds = newBonds,
                                           !.tBills = JsPercent(p.tBills, JsSub(100, s))]]

ApplyShock(m) ==
    LET p == m.portfolio
        s == m.params.shockMagnitude
        newBonds == JsPercent(p.bonds, JsSub(100, s))
    IN  [logEvent(m, LogLine("[T+1] Market shock: Bonds dropped by a% (-$bk)", "",
                             s, ToFixed0(JsSub(p.bonds, newBonds), 1000)))
            EXCEPT !.portfolio = [p EXCEPT !.bonds = newBonds]]

\* REBALANCE that sells all the bonds instead of half
ApplyRebalance_SellsAll(m) ==
    LET p == m.portfolio
        total == getTotalValue(p)
        sellAmount == p.bonds
    IN  IF JsLess(total, JsPercent(m.params.targetReserveRatio, 1000000))
        THEN [logEvent(m, LogLine("[T+2] Rebalance triggered: Sold $ak Bonds, bought T-Bills",
                                  "", ToFixed0(sellAmount, 1000), 0))
                EXCEPT !.portfolio = [p EXCEPT !.bonds = JsSub(p.bonds, sellAmount),
                                               !.tBills = JsAdd(p.tBills, sellAmount)]]
        ELSE logEvent(m, LogLine("[T+2] Rebalance check: Ratio healthy (a%), no action needed",
                                 "", ToFixed0(total, 1000), 0))

\* REBALANCE that buys the T-Bills without selling the bonds
ApplyRebalance_KeepsBonds(m) ==
    LET p == m.portfolio
        total == getTotalValue(p)
        sellAmount == JsHalf(p.bonds)
    IN  IF JsLess(total, JsPercent(m.params.targetReserveRatio, 1000000))
        THEN [logEvent(m, LogLine("[T+2] Rebalance triggered: Sold $ak Bonds, bought T-Bills",
                                  "", ToFixed0(sellAmount, 1000), 0))
                EXCEPT !.portfolio = [p EXCEPT !.tBills = JsAdd(p.tBills, sellAmount)]]
        ELSE logEvent(m, LogLine("[T+2] Rebalance check: Ratio healthy (a%), no action needed",
                                 "", ToFixed0(total, 1000), 0))

\* REBALANCE that compares the ratio with 100 instead of the target
ApplyRebalance_Target100(m) ==
    LET p == m.portfolio
        total == getTotalValue(p)
        sellAmount == JsHalf(p.bonds)
    IN  IF JsLess(total, 1000000)
        THEN [logEvent(m, LogLine("[T+2] Rebalance triggered: Sold $ak Bonds, bought T-Bills",
                                  "", ToFixed0(sellAmount, 1000), 0))
                EXCEPT !.portfolio = [p EXCEPT !.bonds = JsSub(p.bonds, sellAmount),
                                               !.tBills = JsAdd(p.tBills, sellAmount)]]
        ELSE logEvent(m, LogLine("[T+2] Rebalance check: Ratio healthy (a%), no action needed",
                                 "", ToFixed0(total, 1000), 0))

\* REBALANCE that also acts when the ratio equals the target
ApplyRebalance_AtTarget(m) ==
    LET p == m.portfolio
        total == getTotalValue(p)
        sellAmount == JsHalf(p.bonds)
    IN  IF ~JsLess(JsPercent(m.params.targetReserveRatio, 1000000), total)
        THEN [logEvent(m, LogLine("[T+2] Rebalance triggered: Sold $ak Bonds, bought T-Bills",
                                  "", ToFixed0(sellAmount, 1000), 0))
                EXCEPT !.portfolio = [p EXCEPT !.bonds = JsSub(p.bonds, sellAmount),
                                               !.tBills = JsAdd(p.tBills, sellAmount)]]
        ELSE logEvent(m, LogLine("[T+2] Rebalance check: Ratio healthy (a%), no action needed",
                                 "", ToFixed0(total, 1000), 0))

ApplyRebalance(m) ==
    LET p == m.portfolio
        total == getTotalValue(p)
        sellAmount == JsHalf(p.bonds)
    IN  \* ratio = total / 1000000 * 100 < targetReserveRatio
        IF JsLess(total, JsPercent(m.params.targetReserveRatio, 1000000))
        THEN [logEvent(m, LogLine("[T+2] Rebalance triggered: Sold $ak Bonds, bought T-Bills",
                                  "", ToFixed0(sellAmount, 1000), 0))
                EXCEPT !.portfolio = [p EXCEPT !.bonds = JsSub(p.bonds, sellAmount),
                                               !.tBills = JsAdd(p.tBills, sellAmount)]]
        ELSE \* ratio.toFixed(1), kept in tenths of a percent
             logEvent(m, LogLine("[T+2] Rebalance check: Ratio healthy (a%), no action needed",
                                 "", ToFixed0(total, 1000), 0))

\* DISTRIBUTION that charges the whole amount to cash
ApplyDistribution_CashOnly(m) ==
    LET p == m.portfolio
        total == getTotalValue(p)
        distAmount == JsPercent(total, m.params.yieldDistribution)
    IN  [logEvent(m, LogLine("[T+3] Distribution: Paid out $ak (b%) yield", "",
                             ToFixed0(distAmount, 1000), m.params.yieldDistribution))
            EXCEPT !.portfolio = [p EXCEPT !.cash = JsSub(p.cash, distAmount)]]

ApplyDistribution(m) ==
    LET p == m.portfolio
        total == getTotalValue(p)
        distAmount == JsPercent(total, m.params.yieldDistribution)
        remainder == JsSub(distAmount, p.cash)
        q == IF JsGeq(p.cash, distAmount)
             THEN [p EXCEPT !.cash = JsSub(p.cash, distAmount)]
             ELSE [p EXCEPT !.cash = 0, !.tBills = JsSub(p.tBills, remainder)]
    IN  [logEvent(m, LogLine("[T+3] Distribution: Paid out $ak (b%) yield", "",
                             ToFixed0(distAmount, 1000), m.params.yieldDistribution))
            EXCEPT !.portfolio = q]

-----------------------------------------------------------------------------
(* Logic functions, as functions of the machine m (the state object and    *)
(* the timer table)                                                        *)

\* stopSimulation that flips isPlaying instead of clearing it
stopSimulation_Toggles(m) ==
    [m EXCEPT !.isPlaying = ~m.isPlaying,
              !.timerId = 0,
              !.intervals = IF m.timerId # 0 THEN m.intervals \ {m.timerId}
                            ELSE m.intervals]

stopSimulation(m) ==
    [m EXCEPT !.isPlaying = FALSE,
              !.timerId = 0,
              !.intervals = IF m.timerId # 0 THEN m.intervals \ {m.timerId}
                            ELSE m.intervals]

\* resetSimulation that forgets to clear the log
resetSimulation_KeepsLogs(m) ==
    LET s == stopSimulation(m)
        r == [s EXCEPT !.currentStep = 0,
                       !.portfolio = initialPortfolio,
                       !.history = <<[step |-> 0, value |-> getTotalValue(initialPortfolio)]>>]
    IN  logEvent(r, LogLine("Simulation reset. Ready for T+0.", "", 0, 0))

resetSimulation(m) ==
    LET s == stopSimulation(m)
        r == [s EXCEPT !.currentStep = 0,
                       !.portfolio = initialPortfolio,
                       !.history = <<[step |-> 0, value |-> getTotalValue(initialPortfolio)]>>,
                       !.logs = <<>>]
    IN  logEvent(r, LogLine("Simulation reset. Ready for T+0.", "", 0, 0))

\* state.history[stepIndex] = entry
HistoryPut(h, stepIndex, entry) ==
    [k \in 1..(IF stepIndex + 1 > Len(h) THEN stepIndex + 1 ELSE Len(h)) |->
        IF k = stepIndex + 1 THEN entry
        ELSE IF k <= Len(h) THEN h[k]
        ELSE [step |-> Undefined, value |-> Undefined]]

\* state.portfolio = stepDef.apply(state, state.portfolio)
ApplyStep(m, stepIndex) ==
    CASE stepIndex = 0 -> [m EXCEPT !.portfolio = initialPortfolio]
      [] stepIndex = 1 -> ApplyShock(m)
      [] stepIndex = 2 -> ApplyRebalance(m)
      [] stepIndex = 3 -> ApplyDistribution(m)

\* executeStep that records the total of the portfolio it was given
executeStep_StaleTotal(m, stepIndex) ==
    IF stepIndex \notin 0..(SIMULATION_STEPS_length - 1) THEN m
    ELSE Eval(ApplyStep(m, stepIndex),
              LAMBDA a : [a EXCEPT !.history =
                             HistoryPut(a.history, stepIndex,
                                        [step |-> stepIndex,
                                         value |-> getTotalValue(m.portfolio)])])

executeStep(m, stepIndex) ==
    IF stepIndex \notin 0..(SIMULATION_STEPS_length - 1) THEN m
    ELSE Eval(ApplyStep(m, stepIndex),
              LAMBDA a : [a EXCEPT !.history =
                             HistoryPut(a.history, stepIndex,
                                        [step |-> stepIndex,
                                         value |-> getTotalValue(a.portfolio)])])

\* nextStep that goes from T+1 straight to T+3
nextStep_SkipsRebalance(m) ==
    IF m.currentStep < SIMULATION_STEPS_length - 1
    THEN Eval(IF m.currentStep = 1 THEN 3 ELSE m.currentStep + 1,
              LAMBDA k : Eval(executeStep([m EXCEPT !.currentStep = k], k),
                              LAMBDA e : IF e.currentStep = SIMULATION_STEPS_length - 1
                                         THEN stopSimulation(e) ELSE e))
    ELSE stopSimulation(m)

\* nextStep that runs the last step again when already at it
nextStep_RerunsTerminal(m) ==
    IF m.currentStep < SIMULATION_STEPS_length - 1
    THEN Eval(executeStep([m EXCEPT !.currentStep = m.currentStep + 1], m.currentStep + 1),
              LAMBDA e : IF e.currentStep = SIMULATION_STEPS_length - 1
                         THEN stopSimulation(e) ELSE e)
    ELSE Eval(executeStep(m, m.currentStep), LAMBDA e : stopSimulation(e))

nextStep(m) ==
    IF m.currentStep < SIMULATION_STEPS_length - 1
    THEN Eval(executeStep([m EXCEPT !.currentStep = m.currentStep + 1], m.currentStep + 1),
              LAMBDA e : IF e.currentStep = SIMULATION_STEPS_length - 1
                         THEN stopSimulation(e) ELSE e)
    ELSE stopSimulation(m)

\* setInterval returns an id no live timer has
FreshId(m) == CHOOSE i \in 1..(Cardinality(m.intervals) + 1) : i \notin m.intervals

startPlaySequence(m) ==
    [m EXCEPT !.isPlaying = TRUE,
              !.hasEverPlayed = TRUE,
              !.timerId = FreshId(m),
              !.intervals = m.intervals \cup {FreshId(m)}]

\* playSimulation that rewinds the step index at the terminal step and keeps
\* the portfolio the last run ended with
playSimulation_Rewinds(m) ==
    IF m.currentStep = SIMULATION_STEPS_length - 1
    THEN [resetSimulation(m) EXCEPT !.portfolio = m.portfolio,
                                    !.pendingStarts = m.pendingStarts + 1]
    ELSE startPlaySequence(m)

\* playSimulation that starts the loop at the terminal step without the reset
playSimulation_NoReset(m) == startPlaySequence(m)

playSimulation(m) ==
    IF m.currentStep = SIMULATION_STEPS_length - 1
    THEN [resetSimulation(m) EXCEPT !.pendingStarts = m.pendingStarts + 1]
    ELSE startPlaySequence(m)

applyPreset(m, presetName) ==
    IF ~PresetTruthy(presetName) THEN m
    ELSE LET preset == PresetLookup(presetName)
             w == [m EXCEPT !.params = [shockMagnitude |-> preset.shockMagnitude,
                                        targetReserveRatio |-> preset.targetReserveRatio,
                                        yieldDistribution |-> preset.yieldDistribution]]
         IN  logEvent(resetSimulation(w), LogLine("Preset loaded: ", preset.label, 0, 0))

\* a slider handler that runs the current step again with the new value
setParameter_Reruns(m, name, value) ==
    executeStep([m EXCEPT !.params[name] = value], m.currentStep)

\* the slider input handlers: state.params[name] = parseInt(e.target.value)
setParameter(m, name, value) == [m EXCEPT !.params[name] = value]

-----------------------------------------------------------------------------
(* The state machine *)

Machine ==
    [currentStep |-> currentStep, isPlaying |-> isPlaying, hasEverPlayed |-> hasEverPlayed,
     timerId |-> timerId, params |-> params, portfolio |-> portfolio,
     history |-> history, logs |-> logs,
     intervals |-> intervals, pendingStarts |-> pendingStarts]

Becomes(m) ==
    /\ currentStep' = m.currentStep
    /\ isPlaying' = m.isPlaying
    /\ hasEverPlayed' = m.hasEverPlayed
    /\ timerId' = m.timerId
    /\ params' = m.params
    /\ portfolio' = m.portfolio
    /\ history' = m.history
    /\ logs' = m.logs
    /\ intervals' = m.intervals
    /\ pendingStarts' = m.pendingStarts

Op(op, name) == [op |-> op, name |-> name, from |-> currentStep]

\* init(): setupEventListeners(); resetSimulation()
Init ==
    LET m == resetSimulation(InitialState)
    IN  /\ currentStep = m.currentStep
        /\ isPlaying = m.isPlaying
        /\ hasEverPlayed = m.hasEverPlayed
        /\ timerId = m.timerId
        /\ params = m.params
        /\ portfolio = m.portfolio
        /\ history = m.history
        /\ logs = m.logs
        /\ intervals = m.intervals
        /\ pendingStarts = m.pendingStarts
        /\ lastOp = [op |-> "init", name |-> "", from |-> 0]
        /\ lastCmd = "init"

\* Inputs of the handlers
PresetInputs == {"conservative", "balanced", "aggressive", "constructor", "turbo"}
ParamNames == {"shockMagnitude", "targetReserveRatio", "yieldDistribution"}
ShockInputs == {0, 100}
ReserveInputs == {80, 100}
YieldInputs == {100}
SliderInputs(name) ==
    CASE name = "shockMagnitude" -> ShockInputs
      [] name = "targetReserveRatio" -> ReserveInputs
      [] name = "yieldDistribution" -> YieldInputs

\* The timer table has room for one more interval beside the pending starts
TimerRoom == Cardinality(intervals) + pendingStarts < MaxTimers

\* play(): the click handler of btn-play
Play ==
    /\ TimerRoom
    /\ currentStep = SIMULATION_STEPS_length - 1 => pendingStarts < MaxPending
    /\ \E m \in {playSimulation(Machine)} : Becomes(m)
    /\ lastOp' = Op("play", "")
    /\ lastCmd' = IF currentStep = SIMULATION_STEPS_length - 1 THEN "replay" ELSE "play"

\* pause(): the click handler of btn-pause
Pause ==
    /\ \E m \in {stopSimulation(Machine)} : Becomes(m)
    /\ lastOp' = Op("pause", "")
    /\ lastCmd' = "pause"

\* reset(): the click handler of btn-reset
Reset ==
    /\ \E m \in {resetSimulation(Machine)} : Becomes(m)
    /\ lastOp' = Op("reset", "")
    /\ lastCmd' = "reset"

\* applyPreset(presetName)
ApplyPreset(name) ==
    /\ \E m \in {applyPreset(Machine, name)} : Becomes(m)
    /\ lastOp' = Op("applyPreset", name)
    /\ lastCmd' = IF PresetTruthy(name) THEN "applyPreset" ELSE lastCmd

SetParameter ==
    \E name \in ParamNames : \E value \in SliderInputs(name) :
        /\ \E m \in {setParameter(Machine, name, value)} : Becomes(m)
        /\ lastOp' = Op("setParameter", name)
        /\ UNCHANGED lastCmd

\* one fire of a live interval: nextStep()
TimerFire(id) ==
    /\ id \in intervals
    /\ \E m \in {nextStep(Machine)} : Becomes(m)
    /\ lastOp' = Op("tick", "")
    /\ UNCHANGED lastCmd

\* the timeout of playSimulation fires: startPlaySequence()
DeferredStart ==
    /\ pendingStarts > 0
    /\ \E m \in {startPlaySequence([Machine EXCEPT !.pendingStarts = pendingStarts - 1])} : Becomes(m)
    /\ lastOp' = Op("deferredStart", "")
    /\ UNCHANGED lastCmd

Tick == \E id \in 1..MaxTimers : TimerFire(id)

Next ==
    \/ Play
    \/ Pause
    \/ Reset
    \/ \E name \in PresetInputs : ApplyPreset(name)
    \/ SetParameter
    \/ Tick
    \/ DeferredStart

\* The engine driven through its commands, each callable in any state
Spec == Init /\ [][Next]_vars

-----------------------------------------------------------------------------
(* The step functions on their own: SIMULATION_STEPS[k].apply(state, p)    *)
(* applied once to a portfolio and a parameter set drawn from bounded sets *)

UsdcInputs == {0, 400000}
TBillsInputs == {0 - 400000, 0, 300000}
BondsInputs == {0, 80000, 200000}
CashInputs == {0, 100000}
PortfolioInputs == [usdc : UsdcInputs, tBills : TBillsInputs, bonds : BondsInputs, cash : CashInputs]
ParamsInputs ==
    [shockMagnitude : {0, 20, 35, 50, 100},
     targetReserveRatio : {80, 100, 110},
     yieldDistribution : {0, 5, 50, 100}]

InitFn ==
    /\ currentStep = 0
    /\ isPlaying = FALSE
    /\ hasEverPlayed = FALSE
    /\ timerId = 0
    /\ params \in ParamsInputs
    /\ portfolio \in PortfolioInputs
    /\ history = <<>>
    /\ logs = <<>>
    /\ intervals = {}
    /\ pendingStarts = 0
    /\ lastOp = [op |-> "input", name |-> "", from |-> 0]
    /\ lastCmd = "input"

SHOCK ==
    /\ lastOp.op = "input"
    /\ \E m \in {ApplyShock(Machine)} : Becomes(m)
    /\ lastOp' = Op("SHOCK", "")
    /\ UNCHANGED lastCmd

REBALANCE ==
    /\ lastOp.op = "input"
    /\ \E m \in {ApplyRebalance(Machine)} : Becomes(m)
    /\ lastOp' = Op("REBALANCE", "")
    /\ UNCHANGED lastCmd

DISTRIBUTION ==
    /\ lastOp.op = "input"
    /\ \E m \in {ApplyDistribution(Machine)} : Becomes(m)
    /\ lastOp' = Op("DISTRIBUTION", "")
    /\ UNCHANGED lastCmd

NextFn ==
    \/ SHOCK
    \/ REBALANCE
    \/ DISTRIBUTION

SpecFn == InitFn /\ [][NextFn]_vars

-----------------------------------------------------------------------------
(* The engine driven through the page: renderControls disables btn-play    *)
(* while isPlaying and btn-pause while not, and the preset buttons carry   *)
(* the names of PRESETS                                                    *)

PlayClick == ~isPlaying /\ Play

PauseClick == isPlaying /\ Pause

PresetClick == \E name \in DOMAIN PRESETS : ApplyPreset(name)

NextUI ==
    \/ PlayClick
    \/ PauseClick
    \/ Reset
    \/ PresetClick
    \/ SetParameter
    \/ Tick
    \/ DeferredStart

SpecUI == Init /\ [][NextUI]_vars

-----------------------------------------------------------------------------
(* The scheduling loop with the parameters left alone, under the browser's *)
(* guarantee that a live interval keeps firing and a pending timeout fires *)

NextRun ==
    \/ Play
    \/ Pause
    \/ Reset
    \/ Tick
    \/ DeferredStart

FairSpec ==
    /\ Init
    /\ [][NextRun]_vars
    /\ \A id \in 1..MaxTimers : WF_vars(TimerFire(id))
    /\ WF_vars(DeferredStart)

-----------------------------------------------------------------------------
(* Properties *)

ResetLine == LogLine("Simulation reset. Ready for T+0.", "", 0, 0)

\* the engine as resetSimulation leaves it
FreshRun ==
    /\ currentStep = 0
    /\ portfolio = [usdc |-> 400000, tBills |-> 300000, bonds |-> 200000, cash |-> 100000]
    /\ history = <<[step |-> 0, value |-> 1000000]>>

\* C1: in every reachable state at most one advance timer is armed, whatever
\* the sequence of play, pause, reset, applyPreset and timer fires.
C1_AtMostOneTimer == Cardinality(intervals) <= 1

\* C2: after pause() the loop is stopped: until the next play() (or a reset or
\* preset load) isPlaying stays false and the step index, portfolio, history
\* and log do not change.
C2_PauseHolds ==
    [][(lastCmd = "pause" /\ lastCmd' = "pause")
         => (~isPlaying' /\ UNCHANGED <<currentStep, portfolio, history, logs>>)]_vars

\* C3: immediately after reset() the step index is 0, the portfolio is the
\* initial allocation, the history is the single entry {0, 1000000} and the
\* log is the single reset line.
C3_ResetPost == lastOp.op = "reset" => (FreshRun /\ logs = <<ResetLine>>)

\* C3 witness: a reset issued at the terminal step, after a complete run
C3_Witness ==
    /\ lastOp.op = "reset"
    /\ lastOp.from = 3
    /\ hasEverPlayed

\* C4: with shockMagnitude and yieldDistribution in 0..100 (every numeric
\* input of the model is), all four portfolio amounts are non-negative.
C4_NonNegative ==
    (\A k \in DOMAIN portfolio : IsNum(portfolio[k]))
        => (\A k \in DOMAIN portfolio : portfolio[k] >= 0)

\* C5: once play() has started the loop from a non-terminal step and no
\* pause, reset or preset load intervenes, the engine eventually rests at
\* step 3 with isPlaying false and no timer armed.
C5_RunCompletes ==
    (lastCmd = "play")
        ~> (lastCmd # "play" \/ (currentStep = 3 /\ ~isPlaying /\ intervals = {}))

\* C6: play() at the terminal step first performs a full reset and starts no
\* loop yet (the start is deferred); absent further commands the run then
\* reaches step 3 again and the loop stops.
C6_ReplayResetsThenRuns ==
    /\ []((lastOp.op = "play" /\ lastOp.from = 3)
            => (FreshRun /\ logs = <<ResetLine>> /\ ~isPlaying /\ timerId = 0
                /\ pendingStarts > 0))
    /\ ((lastCmd = "replay")
            ~> (lastCmd # "replay" \/ (currentStep = 3 /\ ~isPlaying /\ timerId = 0)))

\* C6 witness: the replayed run has advanced to the terminal step and stopped
C6_Witness ==
    /\ lastCmd = "replay"
    /\ lastOp.op = "tick"
    /\ lastOp.from = 2
    /\ currentStep = 3
    /\ ~isPlaying

\* C7: a timer fire at step 3 leaves the step index, portfolio, history and
\* log unchanged.
C7_AdvanceAtTerminalNoOp ==
    [][(currentStep = 3 /\ lastOp'.op = "tick")
         => UNCHANGED <<currentStep, portfolio, history, logs>>]_vars

\* C7 witness: a timer has fired while the engine was at step 3
C7_Witness == lastOp.op = "tick" /\ lastOp.from = 3

\* C8: applyPreset with a name other than conservative, balanced, aggressive
\* changes nothing.
C8_UnknownPresetNoOp ==
    [][(lastOp'.op = "applyPreset" /\ lastOp'.name \notin {"conservative", "balanced", "aggressive"})
         => UNCHANGED <<params, currentStep, portfolio, history, logs, isPlaying,
                        timerId, intervals>>]_vars

\* C9: applyPreset with a recognized name sets the three parameters to the
\* preset's triple and leaves the engine at step 0, initial portfolio, one
\* history entry, isPlaying false, no timer armed, and the log as the reset
\* line followed by the preset-loaded line.
C9_PresetPost ==
    (lastOp.op = "applyPreset" /\ lastOp.name \in {"conservative", "balanced", "aggressive"})
        => /\ params.shockMagnitude = PRESETS[lastOp.name].shockMagnitude
           /\ params.targetReserveRatio = PRESETS[lastOp.name].targetReserveRatio
           /\ params.yieldDistribution = PRESETS[lastOp.name].yieldDistribution
           /\ lastOp.name = "aggressive"
                => params = [shockMagnitude |-> 35, targetReserveRatio |-> 105,
                             yieldDistribution |-> 8]
           /\ FreshRun
           /\ ~isPlaying
           /\ intervals = {}
           /\ logs = <<ResetLine, LogLine("Preset loaded: ", PRESETS[lastOp.name].label, 0, 0)>>

\* C10: setting one parameter changes that parameter only: the other two,
\* the step index, portfolio, history, log, isPlaying and the timers stay.
C10_SetParameterFrame ==
    [][(lastOp'.op = "setParameter")
         => /\ UNCHANGED <<currentStep, portfolio, history, logs, isPlaying,
                           timerId, intervals, pendingStarts>>
            /\ \A n \in ParamNames \ {lastOp'.name} : params'[n] = params[n]]_vars

\* C10 witness: a slider moved mid-run, while playing at step 2
C10_Witness ==
    /\ lastOp.op = "setParameter"
    /\ isPlaying
    /\ currentStep = 2
    /\ timerId # 0

\* C11: pause() is idempotent: a pause right after a pause, and a pause while
\* not playing, leave the whole engine state (step, portfolio, history, log,
\* isPlaying, timers) as it is.
C11_PauseIdempotent ==
    /\ lastOp.op = "pause" => stopSimulation(Machine) = Machine
    /\ ~isPlaying => stopSimulation(Machine) = Machine

\* C11 witness: the engine paused mid-run, at step 2, where pause may be
\* called again
C11_Witness ==
    /\ lastOp.op = "pause"
    /\ lastOp.from = 2
    /\ hasEverPlayed
    /\ ~isPlaying

\* the values recorded in state.history, in step order
HistoryValues == [i \in 1..Len(history) |-> history[i].value]

Portfolio(u, t, b, c) == [usdc |-> u, tBills |-> t, bonds |-> b, cash |-> c]

\* C12: with shockMagnitude 20, targetReserveRatio 110, yieldDistribution 5
\* held fixed, the run from reset passes through the portfolios
\* (400000, 300000, 160000, 100000), (400000, 380000, 80000, 100000),
\* (400000, 380000, 80000, 52000), with totals 960000, 960000, 912000 and
\* history values 1000000, 960000, 960000, 912000.
C12_BalancedRun ==
    params = [shockMagnitude |-> 20, targetReserveRatio |-> 110, yieldDistribution |-> 5]
    => /\ currentStep = 0 => (portfolio = Portfolio(400000, 300000, 200000, 100000)
                              /\ HistoryValues = <<1000000>>)
       /\ currentStep = 1 => (portfolio = Portfolio(400000, 300000, 160000, 100000)
                              /\ getTotalValue(portfolio) = 960000
                              /\ HistoryValues = <<1000000, 960000>>)
       /\ currentStep = 2 => (portfolio = Portfolio(400000, 380000, 80000, 100000)
                              /\ getTotalValue(portfolio) = 960000
                              /\ HistoryValues = <<1000000, 960000, 960000>>)
       /\ currentStep = 3 => (portfolio = Portfolio(400000, 380000, 80000, 52000)
                              /\ getTotalValue(portfolio) = 912000
                              /\ HistoryValues = <<1000000, 960000, 960000, 912000>>)

\* C12 witness: the run has completed with the three parameters at 20, 110, 5
C12_Witness ==
    /\ currentStep = 3
    /\ lastOp.op = "tick"
    /\ lastOp.from = 2
    /\ params = [shockMagnitude |-> 20, targetReserveRatio |-> 110, yieldDistribution |-> 5]

\* C13: DISTRIBUTION pays distAmount = totalValue * yieldDistribution / 100
\* from cash first: with cash >= distAmount cash decreases by distAmount and
\* tBills is unchanged, otherwise cash becomes 0 and tBills decreases by
\* distAmount - cash (the initial portfolio at 100% ends with cash 0 and
\* tBills -600000); usdc and bonds are unchanged, cash does not end negative
\* and the total value decreases by exactly distAmount.
C13_Distribution ==
    [][lastOp'.op = "DISTRIBUTION" =>
        LET total == portfolio.usdc + portfolio.tBills + portfolio.bonds + portfolio.cash
            total2 == portfolio'.usdc + portfolio'.tBills + portfolio'.bonds + portfolio'.cash
            y == params.yieldDistribution
        IN  /\ portfolio.cash * 100 >= total * y
                => /\ (portfolio.cash - portfolio'.cash) * 100 = total * y
                   /\ portfolio'.tBills = portfolio.tBills
            /\ portfolio.cash * 100 < total * y
                => /\ portfolio'.cash = 0
                   /\ (portfolio.tBills - portfolio'.tBills) * 100 = total * y - portfolio.cash * 100
            /\ (portfolio = initialPortfolio /\ y = 100)
                => (portfolio'.cash = 0 /\ portfolio'.tBills = 0 - 600000)
            /\ portfolio'.usdc = portfolio.usdc
            /\ portfolio'.bonds = portfolio.bonds
            /\ portfolio'.cash >= 0
            /\ (total - total2) * 100 = total * y]_vars

\* C13 witness: DISTRIBUTION has paid 100% of the initial portfolio
C13_Witness ==
    /\ lastOp.op = "DISTRIBUTION"
    /\ params.yieldDistribution = 100
    /\ portfolio = Portfolio(400000, 0 - 600000, 200000, 0)

\* the last line of the log
LastLog == logs[Len(logs)]

\* C14: REBALANCE moves exactly half of the bonds into tBills if and only if
\* totalValue / 1,000,000 * 100 < targetReserveRatio, and returns the portfolio
\* unchanged when the ratio equals or exceeds the target; total value, usdc
\* and cash are unchanged in both branches.
C14_Rebalance ==
    [][lastOp'.op = "REBALANCE" =>
        LET total == portfolio.usdc + portfolio.tBills + portfolio.bonds + portfolio.cash
            total2 == portfolio'.usdc + portfolio'.tBills + portfolio'.bonds + portfolio'.cash
            below == total * 100 < params.targetReserveRatio * 1000000
        IN  /\ below => /\ 2 * portfolio'.bonds = portfolio.bonds
                        /\ 2 * (portfolio'.tBills - portfolio.tBills) = portfolio.bonds
                        /\ LastLog'.line = "[T+2] Rebalance triggered: Sold $ak Bonds, bought T-Bills"
            /\ ~below => /\ portfolio' = portfolio
                         /\ LastLog'.line = "[T+2] Rebalance check: Ratio healthy (a%), no action needed"
            /\ total2 = total
            /\ portfolio'.usdc = portfolio.usdc
            /\ portfolio'.cash = portfolio.cash]_vars

\* C14 witness: REBALANCE has left alone a portfolio whose ratio equals the
\* target (1,000,000 at a target of 100) and that holds bonds to sell
C14_Witness ==
    /\ lastOp.op = "REBALANCE"
    /\ params.targetReserveRatio = 100
    /\ portfolio = initialPortfolio
    /\ LastLog.line = "[T+2] Rebalance check: Ratio healthy (a%), no action needed"

\* C16: SHOCK sets bonds to bonds * (1 - shockMagnitude / 100) and leaves
\* usdc, tBills and cash unchanged, for every shockMagnitude in 0..100 and
\* every input portfolio.
C16_Shock ==
    [][(lastOp'.op = "SHOCK" /\ params.shockMagnitude \in 0..100) =>
        /\ portfolio'.bonds * 100 = portfolio.bonds * (100 - params.shockMagnitude)
        /\ portfolio'.usdc = portfolio.usdc
        /\ portfolio'.tBills = portfolio.tBills
        /\ portfolio'.cash = portfolio.cash]_vars

\* C16 witness: SHOCK at 35% has taken the bonds from 200000 to 130000 in a
\* portfolio with negative tBills
C16_Witness ==
    /\ lastOp.op = "SHOCK"
    /\ params.shockMagnitude = 35
    /\ portfolio = Portfolio(400000, 0 - 400000, 130000, 100000)

\* the shockMagnitude the SHOCK step of the current run was applied with, read
\* from its log line; undefined before the step
ShockApplied ==
    LET I == {i \in 1..Len(logs) :
                 logs[i].line = "[T+1] Market shock: Bonds dropped by a% (-$bk)"}
    IN  IF I = {} THEN Undefined
        ELSE logs[CHOOSE i \in I : \A j \in I : j <= i].a

\* the T+2 step runs in this transition and takes the rebalance branch
SoldBonds ==
    /\ LastLog'.line = "[T+2] Rebalance triggered: Sold $ak Bonds, bought T-Bills"
    /\ portfolio'.bonds < portfolio.bonds
    /\ portfolio'.tBills > portfolio.tBills

C17_NonNegativeThroughRebalance ==
    (currentStep \in 0..2 /\ (currentStep = 0 \/ ShockApplied \in 0..100))
    => /\ getTotalValue(portfolio) >= 0
       /\ portfolio.bonds >= 0

\* C17 witness: T+2 has run after a shock of 100%, which leaves no bonds
C17_Witness ==
    /\ currentStep = 2
    /\ lastOp.from = 1
    /\ ShockApplied = 100
    /\ portfolio.bonds = 0
    /\ getTotalValue(portfolio) = 800000

\* C18: calculateRiskScore returns exactly 0 whenever the total value is 0,
\* whatever the parameters, the terminal portfolio of a run with
\* shockMagnitude 100 and yieldDistribution 100 included.
C18_ZeroTotalZeroRisk ==
    getTotalValue(portfolio) = 0
    => /\ calculateRiskScore(portfolio, params) = Risk(0, 1)
       /\ \A s \in {Undefined, 0, 50, 100} :
             calculateRiskScore(portfolio, [params EXCEPT !.shockMagnitude = s]) = Risk(0, 1)

\* C18 witness: the run with shockMagnitude 100 and yieldDistribution 100 has
\* ended on a portfolio of total 0
C18_Witness ==
    /\ currentStep = 3
    /\ lastOp.from = 2
    /\ portfolio = Portfolio(400000, 0 - 400000, 0, 0)
    /\ getTotalValue(portfolio) = 0

\* C19: the risk score of every reachable portfolio, for every shockMagnitude
\* in 0..100, lies in [0, 100], being
\* (80 bondsWeight + 10 tBillsWeight + 5 usdcWeight) * (1 + shockMagnitude / 100)
\* clamped to that interval.
C19_RiskInRange ==
    params.shockMagnitude \in 0..100
    => LET r == calculateRiskScore(portfolio, params)
           total == getTotalValue(portfolio)
       IN  /\ RiskLeq(Risk(0, 1), r)
           /\ RiskLeq(r, Risk(100, 1))
           /\ total # 0 => r = Clamp(FinalRisk(portfolio, total, params.shockMagnitude))

\* the values of shockMagnitude the step functions are applied with
ShockRange == {q.shockMagnitude : q \in ParamsInputs}

RiskAt(s) == calculateRiskScore(portfolio, [params EXCEPT !.shockMagnitude = s])

\* C20: for any fixed portfolio the risk score is non-decreasing in
\* shockMagnitude: s1 <= s2 implies riskScore(p, s1) <= riskScore(p, s2).
C20_RiskMonotone ==
    \A s1, s2 \in ShockRange : s1 <= s2 => RiskLeq(RiskAt(s1), RiskAt(s2))

\* C20 witness: the initial portfolio after a SHOCK of 20%, whose score grows
\* strictly between shockMagnitude 0 and 100
C20_Witness ==
    /\ lastOp.op = "SHOCK"
    /\ portfolio = Portfolio(400000, 300000, 160000, 100000)
    /\ RiskAt(0) = Risk(356000000, 19200000)
    /\ RiskAt(100) = Risk(712000000, 19200000)
    /\ RiskLeq(RiskAt(0), RiskAt(100))
    /\ ~RiskLeq(RiskAt(100), RiskAt(0))

\* C21: an advance that moves the step index to the terminal step 3 stops the
\* scheduling loop itself: afterwards isPlaying is false and no timer remains
\* armed, so no further timer fire is pending.
C21_TerminalAdvanceStops ==
    [][(currentStep = SIMULATION_STEPS_length - 2 /\ currentStep' = SIMULATION_STEPS_length - 1)
       => /\ ~isPlaying'
          /\ timerId' = 0
          /\ intervals' = {}]_vars

\* C22: the step index is always in 0..3, and every change to it is either an
\* increment by exactly 1, which applies the transition of the new index to
\* the portfolio the previous step produced, or a jump to 0 by a reset (reset,
\* applyPreset, play at the terminal step); the portfolio changes with the
\* step index only, so no step is skipped or executed twice between resets.
C22_StepsInOrder ==
    /\ [](currentStep \in 0..(SIMULATION_STEPS_length - 1))
    /\ [][/\ currentStep' # currentStep
              => \/ /\ currentStep' = currentStep + 1
                    /\ portfolio' = ApplyStep(Machine, currentStep + 1).portfolio
                    /\ lastOp'.op = "tick"
                 \/ /\ currentStep' = 0
                    /\ portfolio' = initialPortfolio
                    /\ lastOp'.op \in {"reset", "applyPreset", "play"}
          /\ currentStep' = currentStep => portfolio' = portfolio]_vars

\* C22 witness: two intervals are live and the step index has gone from 1 to 2
C22_Witness ==
    /\ currentStep = 2
    /\ lastOp.op = "tick"
    /\ lastOp.from = 1
    /\ Cardinality(intervals) = 2

\* the log lines step k can write
StepLines(k) ==
    CASE k = 1 -> {"[T+1] Market shock: Bonds dropped by a% (-$bk)"}
      [] k = 2 -> {"[T+2] Rebalance triggered: Sold $ak Bonds, bought T-Bills",
                   "[T+2] Rebalance check: Ratio healthy (a%), no action needed"}
      [] k = 3 -> {"[T+3] Distribution: Paid out $ak (b%) yield"}

IsPrefix(s, t) == Len(s) <= Len(t) /\ \A i \in 1..Len(s) : s[i] = t[i]

\* C23: the log is append-only between resets: every operation other than
\* reset(), applyPreset of a valid preset and play at the terminal step leaves
\* the previous log as a prefix of the new one, each advance to step k in 1..3
\* appends exactly one line, the line of step k, and so at the terminal step
\* the log ends with the T+1, T+2, T+3 lines in that order.
C23_LogAppendOnly ==
    [][/\ ~(\/ lastOp'.op = "reset"
            \/ lastOp'.op = "applyPreset" /\ lastOp'.name \in DOMAIN PRESETS
            \/ lastOp'.op = "play" /\ currentStep = SIMULATION_STEPS_length - 1)
          => IsPrefix(logs, logs')
       /\ currentStep' = currentStep + 1
          => /\ Len(logs') = Len(logs) + 1
             /\ IsPrefix(logs, logs')
             /\ logs'[Len(logs')].line \in StepLines(currentStep')
       /\ (currentStep' = SIMULATION_STEPS_length - 1 /\ Len(logs') >= 3)
          => \A k \in 1..3 : logs'[Len(logs') - 3 + k].line \in StepLines(k)]_vars

\* C24: in every reachable state the history has exactly currentStep + 1
\* entries, entry i carries step = i and the last entry's value is the total
\* value of the current portfolio; a parameter change alters no entry, and an
\* advance leaves the entries of the steps already executed as they are.
C24_HistoryTracksSteps ==
    /\ [](/\ Len(history) = currentStep + 1
          /\ \A i \in 1..Len(history) : history[i].step = i - 1
          /\ history[Len(history)].value = getTotalValue(portfolio))
    /\ [][/\ lastOp'.op = "setParameter" => history' = history
          /\ currentStep' = currentStep + 1 => IsPrefix(history, history')]_vars

\* C24 witness: at step 2, shockMagnitude has been changed after the SHOCK step
\* ran with another value
C24_Witness ==
    /\ currentStep = 2
    /\ lastOp.op = "setParameter"
    /\ lastOp.name = "shockMagnitude"
    /\ ShockApplied = 20
    /\ params.shockMagnitude = 100
    /\ HistoryValues = <<1000000, 960000, 960000>>

\* what executeStep(k) makes of a portfolio p under parameters ps, with
\* nothing else of the engine's state to read
StepAlone(k, p, ps) ==
    executeStep([InitialState EXCEPT !.currentStep = k, !.portfolio = p, !.params = ps], k)

\* the log lines the steps wrote
StepLog(l) == SelectSeq(l, LAMBDA e : e.line \in StepLines(1) \cup StepLines(2) \cup StepLines(3))

\* C25: the run is deterministic in the parameters: every run starts from the
\* same state (initial portfolio, history value 1000000, no step line), a replay
\* by play() at the terminal step included, and the portfolio, history value
\* and log line an advance produces depend on the previous portfolio, the
\* parameters at that step and the step index alone; so two runs from reset
\* that see the same parameter values at each step produce identical
\* portfolios, history values and step log lines.
C25_DeterministicRun ==
    [][/\ currentStep' = currentStep + 1
          => LET r == StepAlone(currentStep', portfolio, params)
             IN  /\ portfolio' = r.portfolio
                 /\ history'[currentStep' + 1] = r.history[currentStep' + 1]
                 /\ LastLog' = r.logs[1]
       /\ (currentStep' = 0 /\ lastOp'.op \in {"reset", "applyPreset", "play"}
                            /\ (lastOp'.op = "applyPreset" => PresetTruthy(lastOp'.name))
                            /\ (lastOp'.op = "play" => currentStep = SIMULATION_STEPS_length - 1))
          => /\ portfolio' = initialPortfolio
             /\ HistoryValues' = <<1000000>>
             /\ StepLog(logs') = <<>>]_vars

\* C25 witness: a replay started by play() at the terminal step has run to the
\* terminal step again, with the parameters of the balanced preset
C25_Witness ==
    /\ lastCmd = "replay"
    /\ currentStep = 3
    /\ lastOp.op = "tick"
    /\ lastOp.from = 2
    /\ params = [shockMagnitude |-> 20, targetReserveRatio |-> 110, yieldDistribution |-> 5]
    /\ portfolio = Portfolio(400000, 380000, 80000, 52000)
    /\ Len(StepLog(logs)) = 3

\* the yieldDistribution the DISTRIBUTION step of the current run was applied
\* with, read from its log line; undefined before the step
YieldApplied ==
    LET I == {i \in 1..Len(logs) : logs[i].line \in StepLines(3)}
    IN  IF I = {} THEN Undefined
        ELSE logs[CHOOSE i \in I : \A j \in I : j <= i].b

\* C26: with shockMagnitude and yieldDistribution in 0..100 the total value
\* never increases along a run: the history values are non-increasing in the
\* step index and the total value stays within 0..1,000,000.
C26_TotalNeverIncreases ==
    (/\ currentStep >= 1 => ShockApplied \in 0..100
     /\ currentStep = 3 => YieldApplied \in 0..100)
    => /\ \A i, j \in 1..Len(history) : i <= j => history[i].value >= history[j].value
       /\ getTotalValue(portfolio) \in 0..1000000

\* C26 witness: a run with a shock of 100% and a distribution of 100% has
\* ended, the total going from 1,000,000 to 800,000 and then to 0
C26_Witness ==
    /\ currentStep = 3
    /\ ShockApplied = 100
    /\ YieldApplied = 100
    /\ HistoryValues = <<1000000, 800000, 800000, 0>>

====
